---------------------------- MODULE Spec2Model ----------------------------
(***************************************************************************)
(* A model of dbmap (github.com/polyfloyd/dbmap): the converter registry,  *)
(* the schema builder (StructMapping / mapStruct), field-name inference    *)
(* (defaultDBName), the row scanner (ScanRow) and the cursor consumers     *)
(* (ScanOne, ScanStream, ScanAll).                                         *)
(*                                                                         *)
(* Strings that the code inspects character by character (field names)     *)
(* are sequences of one-character strings.  Errors are strings, "nil" is   *)
(* the nil error.                                                          *)
(***************************************************************************)
EXTENDS Integers, Sequences, FiniteSets, TLC

VARIABLES
    fieldName,  \* defaultDBName: the argument
    dbName,     \* defaultDBName: the returned column name
    nameRet,    \* defaultDBName: TRUE once the call has returned
    mappers,    \* the package variable mappers: the converter registry
    registered, \* history: the mappers passed to RegisterMapper, in call order
    structIn,   \* StructMapping: the type of the argument
    built,      \* StructMapping: the returned (Mapping, error), or NotCalled
    rowMapping, \* ScanRow: the receiver, a Mapping
    rowIn,      \* ScanRow: the row
    scanOrder,  \* ScanRow: the column names given as scanOrder
    rowTarget,  \* ScanRow: the struct that target points to
    rowErr,     \* ScanRow: the returned error, "not called" or "panic"
    rowCalls,   \* ScanRow: the calls of Receive, row.Scan and Copy it made
    rowErrInfo, \* ScanRow: the index and receiver type the returned error names
    op,         \* the cursor consumer called: ScanOne, ScanStream or ScanAll
    cur,        \* the cursor (rows): its content and its position
    events,     \* history: the calls on the cursor and the channel operations
    cpc,        \* where the caller is (for ScanStream: the channel's consumer)
    ppc,        \* where the goroutine of ScanStream is
    scanCols,   \* the local variable cols
    elem,       \* the value the goroutine is sending on out
    chanClosed, \* out has been closed
    recvd,      \* ScanStream: the values the consumer has received
    slice,      \* ScanAll: the local variable slice
    oneTarget,  \* ScanOne: the struct that target points to
    ret         \* the value returned by ScanOne or ScanAll

nameVars == <<fieldName, dbName, nameRet>>
buildVars == <<mappers, registered, structIn, built>>
rowVars == <<rowMapping, rowIn, scanOrder, rowTarget, rowErr, rowCalls,
             rowErrInfo>>
scanVars == <<op, cur, events, cpc, ppc, scanCols, elem, chanClosed, recvd,
              slice, oneTarget, ret>>
vars == <<nameVars, buildVars, rowVars, scanVars>>

(***************************************************************************)
(* Bounds.                                                                 *)
(***************************************************************************)
MaxNameLen == 4
\* Fields (embedded ones included) in a record type given to StructMapping.
MaxNodes == 3
\* Calls of RegisterMapper after package initialisation.
MaxRegistrations == 2
\* Fields in a record type built while the registry is being changed.
MaxRegistryNodes == 2
\* The column values of a row are 1..MaxValue; 0 is a field's zero value.
MaxValue == 2
\* Rows in a cursor.
MaxRows == 2

(***************************************************************************)
(* Characters.                                                             *)
(***************************************************************************)
\* The letters the class [A-Z] of fieldNameRe matches.
ASCIIUpper ==
    {"A", "B", "C", "D", "E", "F", "G", "H", "I", "J", "K", "L", "M",
     "N", "O", "P", "Q", "R", "S", "T", "U", "V", "W", "X", "Y", "Z"}

\* An upper-case letter outside ASCII (U+00C9) and its lower-case form
\* (U+00E9).  Go identifiers may contain them, [A-Z] does not match them,
\* strings.ToLower maps the first to the second.
UpperEAcute == "U+00C9"
LowerEAcute == "U+00E9"

\* strings.ToLower on one character.
ToLowerChar(c) ==
    CASE c = "A" -> "a" [] c = "B" -> "b" [] c = "C" -> "c" [] c = "D" -> "d"
      [] c = "E" -> "e" [] c = "F" -> "f" [] c = "G" -> "g" [] c = "H" -> "h"
      [] c = "I" -> "i" [] c = "J" -> "j" [] c = "K" -> "k" [] c = "L" -> "l"
      [] c = "M" -> "m" [] c = "N" -> "n" [] c = "O" -> "o" [] c = "P" -> "p"
      [] c = "Q" -> "q" [] c = "R" -> "r" [] c = "S" -> "s" [] c = "T" -> "t"
      [] c = "U" -> "u" [] c = "V" -> "v" [] c = "W" -> "w" [] c = "X" -> "x"
      [] c = "Y" -> "y" [] c = "Z" -> "z"
      [] c = UpperEAcute -> LowerEAcute
      [] OTHER -> c

\* strings.ToLower on a string.
ToLower(s) == [i \in 1..Len(s) |-> ToLowerChar(s[i])]

(***************************************************************************)
(* defaultDBName.                                                          *)
(***************************************************************************)
\* Length of the longest prefix of s[i..] whose characters are all in
\* [A-Z] (upper = TRUE) or all outside it (upper = FALSE): a greedy + or *.
RECURSIVE RunLen(_, _, _)
RunLen(s, i, upper) ==
    IF i > Len(s) \/ ((s[i] \in ASCIIUpper) # upper)
    THEN 0
    ELSE 1 + RunLen(s, i + 1, upper)

\* fieldNameRe.FindAllStringSubmatch(s, -1) from position i on: the
\* successive leftmost matches of ([A-Z]+)([^A-Z]*), each as its two groups.
RECURSIVE FindAllSubmatch(_, _)
FindAllSubmatch(s, i) ==
    IF i > Len(s) THEN <<>>
    ELSE IF s[i] \notin ASCIIUpper THEN FindAllSubmatch(s, i + 1)
    ELSE LET h == RunLen(s, i, TRUE)
             t == RunLen(s, i + h, FALSE)
         IN  <<[head |-> SubSeq(s, i, i + h - 1),
                tail |-> SubSeq(s, i + h, i + h + t - 1)]>>
             \o FindAllSubmatch(s, i + h + t)

\* A plausible slip: the acronym rule is left out.
MatchPartsNoPeel(m) == <<ToLower(m.head) \o m.tail>>

\* The loop body of defaultDBName: the parts one match appends.
MatchParts(m) ==
    IF Len(m.head) > 1 /\ Len(m.tail) # 0
    THEN LET i == Len(m.head) - 1
         IN  <<ToLower(SubSeq(m.head, 1, i)),
               ToLower(SubSeq(m.head, i + 1, Len(m.head))) \o m.tail>>
    ELSE <<ToLower(m.head) \o m.tail>>

RECURSIVE AllParts(_)
AllParts(matches) ==
    IF matches = <<>> THEN <<>>
    ELSE MatchParts(Head(matches)) \o AllParts(Tail(matches))

\* strings.Join(parts, sep)
RECURSIVE Join(_, _)
Join(parts, sep) ==
    IF parts = <<>> THEN <<>>
    ELSE IF Len(parts) = 1 THEN parts[1]
    ELSE parts[1] \o sep \o Join(Tail(parts), sep)

defaultDBName(name) == Join(AllParts(FindAllSubmatch(name, 1)), <<"_">>)

(***************************************************************************)
(* Types, as reflect.Type shows them to the schema builder.                *)
(***************************************************************************)
nFoo == <<"F","o","o">>
nBar == <<"B","a","r">>
nEmbA == <<"E","m","b","A">>
nEmbB == <<"E","m","b","B">>
cFoo == <<"f","o","o">>
cBar == <<"b","a","r">>
NoTag == <<>>
SkipTag == <<"-">>

IntType == [kind |-> "int"]
ChanType == [kind |-> "chan"]
MapType == [kind |-> "map"]
StructOf(fields) == [kind |-> "struct", fields |-> fields]

\* A struct field: its name, its `db` tag ("" when absent), whether it is
\* embedded (reflect.StructField.Anonymous), and its type.
Field(name, tag, anonymous, type) ==
    [name |-> name, tag |-> tag, anonymous |-> anonymous, type |-> type]

(***************************************************************************)
(* The converter registry.                                                 *)
(***************************************************************************)
\* Mapper.Accepts of the built-in mappers, and of two mappers of the
\* caller's: one takes integers and channels, one channels only.
Accepts(mapper, type) ==
    CASE mapper = "nativeMapper" -> type.kind \in {"int", "string", "bool", "float", "time", "bytes"}
      [] mapper = "sqlScannerMapper" -> type.kind = "scanner"
      [] mapper = "jsonMapper" -> type.kind = "map"
      [] mapper = "userMapper" -> type.kind \in {"int", "chan"}
      [] mapper = "chanMapper" -> type.kind = "chan"
      [] OTHER -> FALSE

\* A plausible slip: the new mapper is appended.
RegisterAppend(list, mapper) == list \o <<mapper>>

\* RegisterMapper: mappers = append([]Mapper{mapper}, mappers...)
RegisterPrepend(list, mapper) == <<mapper>> \o list

\* The lookup loop of mapStruct: the first mapper of the list that accepts
\* the type, or "none".
RECURSIVE FindMapper(_, _)
FindMapper(list, type) ==
    IF list = <<>> THEN "none"
    ELSE IF Accepts(Head(list), type) THEN Head(list)
    ELSE FindMapper(Tail(list), type)

(***************************************************************************)
(* The schema builder.                                                     *)
(***************************************************************************)
\* A map with key k set to v.
Put(f, k, v) == [x \in DOMAIN f \cup {k} |-> IF x = k THEN v ELSE f[x]]

EmptyMap == [x \in {} |-> x]

\* Mapping{}: what StructMapping returns beside an error.
ZeroMapping ==
    [structType |-> [kind |-> "nil"], dbToStruct |-> EmptyMap,
     mapping |-> EmptyMap, scanNesting |-> EmptyMap]

\* A plausible slip: "-" is taken for a column name.
NeverExcluded(field) == FALSE

\* dbName == "-": the field is marked not to be mapped.
Excluded(field) == field.tag = SkipTag

\* The field is an embedded struct whose fields are mapped in its place.
IsEmbeddedStruct(field) ==
    field.tag = NoTag /\ field.anonymous /\ field.type.kind = "struct"

\* The column name of a field that is mapped itself.
ColumnOf(field) ==
    IF field.tag = NoTag THEN defaultDBName(field.name) ELSE field.tag

\* mapping.mapStruct(structType, nesting), from field i on.  m is the
\* Mapping the receiver points to; reg is the registry.  A nesting function
\* is the path of embedded field names it walks.  The result is the Mapping
\* as the call leaves it and the returned error.
RECURSIVE mapStruct(_, _, _, _, _)
mapStruct(m, reg, fields, nesting, i) ==
    IF i > Len(fields) THEN [m |-> m, err |-> "nil"]
    ELSE
    LET field == fields[i] IN
    IF Excluded(field) THEN mapStruct(m, reg, fields, nesting, i + 1)
    ELSE IF IsEmbeddedStruct(field)
    THEN \* the error of the recursive call is not looked at
         LET inner == mapStruct(m, reg, field.type.fields,
                                nesting \o <<field.name>>, 1)
         IN  mapStruct(inner.m, reg, fields, nesting, i + 1)
    ELSE
    LET col == ColumnOf(field) IN
    IF col \in DOMAIN m.dbToStruct
    THEN [m |-> m, err |-> "duplicate mapping"]
    ELSE
    LET m1 == [m EXCEPT !.dbToStruct = Put(@, col, field.name),
                        !.scanNesting = Put(@, field.name, nesting)]
        mapper == FindMapper(reg, field.type)
    IN  IF mapper # "none"
        THEN mapStruct([m1 EXCEPT !.mapping = Put(@, field.name, mapper)],
                       reg, fields, nesting, i + 1)
        ELSE [m |-> m1, err |-> "unsupported field"]

\* StructMapping(struc), struc of the given type, with registry reg.
StructMapping(reg, type) ==
    IF type.kind # "struct"
    THEN [mapping |-> ZeroMapping, err |-> "argument is not a struct"]
    ELSE LET r == mapStruct([ZeroMapping EXCEPT !.structType = type],
                            reg, type.fields, <<>>, 1)
         IN  IF r.err # "nil"
             THEN [mapping |-> ZeroMapping, err |-> r.err]
             ELSE [mapping |-> r.m, err |-> "nil"]

(***************************************************************************)
(* The record types StructMapping is given: every struct of at most        *)
(* MaxNodes fields, embedded structs and their fields counted, and a       *)
(* non-struct.                                                             *)
(***************************************************************************)
LeafFields ==
    { Field(nFoo, NoTag, FALSE, IntType),     \* Foo int
      Field(nFoo, cFoo, FALSE, IntType),      \* Foo int  `db:"foo"`
      Field(nFoo, SkipTag, FALSE, IntType),   \* Foo int  `db:"-"`
      Field(nBar, NoTag, FALSE, IntType),     \* Bar int
      Field(nBar, cFoo, FALSE, IntType),      \* Bar int  `db:"foo"`
      Field(nBar, NoTag, FALSE, ChanType),    \* Bar chan int
      Field(nFoo, cFoo, FALSE, MapType) }     \* Foo map[string]interface{} `db:"foo"`

DistinctNames(fields) ==
    \A i, j \in 1..Len(fields) : i # j => fields[i].name # fields[j].name

\* The fields that count for k: a leaf field (k = 1), or an embedded struct
\* of k - 1 fields; exact[j + 1] holds the field lists of exactly j fields.
FieldsOfSize(k, exact) ==
    (IF k = 1 THEN LeafFields ELSE {}) \cup
    {Field(e, NoTag, TRUE, StructOf(fs)) : e \in {nEmbA, nEmbB}, fs \in exact[k]}

\* <<L0, ..., Ln>>, Lj the field lists of exactly j fields in all, the
\* fields of embedded structs counted, with distinct names in each struct.
RECURSIVE FieldListsBySize(_)
FieldListsBySize(n) ==
    IF n = 0 THEN << {<<>>} >>
    ELSE LET exact == FieldListsBySize(n - 1)
             next == UNION {
                         {<<f>> \o rest : f \in FieldsOfSize(k, exact),
                                          rest \in exact[n - k + 1]}
                         : k \in 1..n}
         IN  Append(exact, {fs \in next : DistinctNames(fs)})

\* The field lists of at most n fields in all.
FieldLists(n) ==
    LET exact == FieldListsBySize(n)
    IN  UNION {exact[j] : j \in 1..Len(exact)}

RecordTypes == {IntType} \cup {StructOf(fs) : fs \in FieldLists(MaxNodes)}

SmallRecordTypes == {StructOf(fs) : fs \in FieldLists(MaxRegistryNodes)}

NotCalled == [mapping |-> ZeroMapping, err |-> "not called"]

\* The registry as package initialisation leaves it: init() of json.go
\* registers jsonMapper, init() of native.go nativeMapper and then
\* sqlScannerMapper.
InitMappers == <<"sqlScannerMapper", "nativeMapper", "jsonMapper">>
InitRegistered == <<"jsonMapper", "nativeMapper", "sqlScannerMapper">>

\* The mappers a program registers: a built-in one again, and two of its own.
RegistrableMappers == {"nativeMapper", "userMapper", "chanMapper"}

(***************************************************************************)
(* The row scanner.                                                        *)
(***************************************************************************)
cExtra == <<"e","x","t","r","a">>

\* The column names of the rows, in the order of sort.Strings.
SortedColumns == <<cBar, cExtra, cFoo>>

\* TestRow.Cols(): the columns of the row, sorted.
Cols(row) == SelectSeq(SortedColumns, LAMBDA c : c \in DOMAIN row.vals)

\* The fields of a struct value, each named by the path that leads to it
\* through embedded structs.
RECURSIVE FieldPaths(_, _)
FieldPaths(fields, path) ==
    IF fields = <<>> THEN {}
    ELSE LET f == Head(fields)
         IN  (IF f.type.kind = "struct"
              THEN FieldPaths(f.type.fields, path \o <<f.name>>)
              ELSE {path \o <<f.name>>})
             \cup FieldPaths(Tail(fields), path)

\* The zero value of a struct type: reflect.New(structType), or the
\* caller's fresh target.
ZeroStruct(type) == [p \in FieldPaths(type.fields, <<>>) |-> 0]

\* Values are numbered.  A row carries the value v; as a JSON text it
\* decodes to a map that is not any of the values a row carries.
JSONDecode(v) == 0 - v

\* An element of scan that was left nil.
NilPlaceholder == [kind |-> "nil", path |-> <<>>]

\* Mapper.Receive(field): jsonMapper returns a new *jsonScanner, the other
\* mappers scan into the field itself: field.Addr().Interface().
Receive(mapper, fieldPath) ==
    IF mapper = "jsonMapper"
    THEN [kind |-> "jsonScanner", path |-> <<>>]
    ELSE [kind |-> "ptr", path |-> fieldPath]

\* scanNesting[strucName](tarval).FieldByName(strucName)
FieldOf(m, strucName) == m.scanNesting[strucName] \o <<strucName>>

\* The first loop of ScanRow: scan, one element per name of scanOrder.
Placeholders(m, order) ==
    [i \in 1..Len(order) |->
        IF order[i] \notin DOMAIN m.dbToStruct
        THEN NilPlaceholder
        ELSE Receive(m.mapping[m.dbToStruct[order[i]]],
                     FieldOf(m, m.dbToStruct[order[i]]))]

\* A column of scanOrder is mapped to a field that has no Mapper: the call
\* of Receive on the nil interface panics.
NilMapper(m, order) ==
    \E i \in 1..Len(order) :
        /\ order[i] \in DOMAIN m.dbToStruct
        /\ m.dbToStruct[order[i]] \notin DOMAIN m.mapping

\* What ScanRow calls, in order: Receive and Copy of the Mapper of the
\* column at a position of scanOrder, Receive with what it returned, and
\* row.Scan with its arguments.
MapperCall(name, i, returned) == [call |-> name, pos |-> i, data |-> returned]
ScanCall(data) == [call |-> "Scan", pos |-> 0, data |-> data]

\* The positions of scanOrder before position n that ScanRow's loops do
\* not skip, in order.
RECURSIVE MappedPositions(_, _, _, _)
MappedPositions(m, order, i, n) ==
    IF i >= n THEN <<>>
    ELSE IF order[i] \notin DOMAIN m.dbToStruct
    THEN MappedPositions(m, order, i + 1, n)
    ELSE <<i>> \o MappedPositions(m, order, i + 1, n)

\* The calls of Receive of the first loop, up to the one that panics.
ReceiveCalls(m, order) ==
    LET bad == {i \in 1..Len(order) :
                    /\ order[i] \in DOMAIN m.dbToStruct
                    /\ m.dbToStruct[order[i]] \notin DOMAIN m.mapping}
        stop == IF bad = {} THEN Len(order) + 1
                ELSE (CHOOSE i \in bad : \A j \in bad : i <= j) + 1
        pos == MappedPositions(m, order, 1, stop)
    IN  [k \in 1..Len(pos) |->
            IF m.dbToStruct[order[pos[k]]] \in DOMAIN m.mapping
            THEN MapperCall("Receive", pos[k], <<Placeholders(m, order)[pos[k]]>>)
            ELSE MapperCall("Receive", pos[k], <<>>)]

\* TestRow.Scan(data...) from column i of the row on: a nil element of data
\* is an error; a sql.Scanner is given the value, its error dropped; any
\* other element is assigned the column's value.  mem is the target
\* struct and the *jsonScanner values, by position.
RECURSIVE TestRowScan(_, _, _, _)
TestRowScan(row, data, mem, i) ==
    LET cols == Cols(row) IN
    IF i > Len(cols) THEN [err |-> "nil", target |-> mem.target, scanned |-> mem.scanned]
    ELSE IF i > Len(data)
    THEN [err |-> "panic", target |-> mem.target, scanned |-> mem.scanned]
    ELSE IF data[i] = NilPlaceholder
    THEN [err |-> "receiving column is nil", target |-> mem.target,
          scanned |-> mem.scanned]
    ELSE IF data[i].kind = "jsonScanner"
    THEN TestRowScan(row, data,
                     [mem EXCEPT !.scanned = Put(@, i, JSONDecode(row.vals[cols[i]]))],
                     i + 1)
    ELSE TestRowScan(row, data,
                     [mem EXCEPT !.target[data[i].path] = row.vals[cols[i]]], i + 1)

\* Row.Scan(dest...): the row's own failure, or what TestRow.Scan does.
RowScan(row, data, target) ==
    IF row.fail # "nil"
    THEN [err |-> row.fail, target |-> target, scanned |-> EmptyMap]
    ELSE TestRowScan(row, data, [target |-> target, scanned |-> EmptyMap], 1)

\* The errors a row's Scan returns by itself, and their texts, character
\* by character.
IndexPrefix == <<"i","n","d","e","x"," ">>
BadSuffix == <<"b","a","d">>

ScanErrors ==
    {"scan failed", "index 0: bad", "index 1: bad", "index 2: bad",
     "index 3: bad", "index 12: bad", "column index 1, bad"}

ErrorText(err) ==
    CASE err = "index 0: bad" -> IndexPrefix \o <<"0", ":", " ">> \o BadSuffix
      [] err = "index 1: bad" -> IndexPrefix \o <<"1", ":", " ">> \o BadSuffix
      [] err = "index 2: bad" -> IndexPrefix \o <<"2", ":", " ">> \o BadSuffix
      [] err = "index 3: bad" -> IndexPrefix \o <<"3", ":", " ">> \o BadSuffix
      [] err = "index 12: bad" -> IndexPrefix \o <<"1", "2", ":", " ">> \o BadSuffix
      [] err = "column index 1, bad" ->
            <<"c","o","l","u","m","n"," ">> \o IndexPrefix \o <<"1", ",", " ">> \o BadSuffix
      [] err = "receiving column is nil" ->
            <<"r","e","c","e","i","v","i","n","g"," ","c","o","l","u","m","n"," ",
              "i","s"," ","n","i","l">>
      [] OTHER -> <<"s","c","a","n"," ","f","a","i","l","e","d">>

Digits == {"0", "1", "2", "3", "4", "5", "6", "7", "8", "9"}

\* The number of digits of s from position i on.
RECURSIVE DigitRun(_, _)
DigitRun(s, i) ==
    IF i > Len(s) \/ s[i] \notin Digits THEN 0 ELSE 1 + DigitRun(s, i + 1)

\* `index (\d+): (.+)$` matches s at position p.
IndexMatchAt(s, p) ==
    /\ p + Len(IndexPrefix) - 1 <= Len(s)
    /\ SubSeq(s, p, p + Len(IndexPrefix) - 1) = IndexPrefix
    /\ LET d == DigitRun(s, p + Len(IndexPrefix))
           q == p + Len(IndexPrefix) + d
       IN  /\ d >= 1
           /\ q + 2 <= Len(s)
           /\ s[q] = ":" /\ s[q + 1] = " "

\* rowScanIndexRe.FindStringSubmatch(s): the leftmost match, its two groups.
FindStringSubmatch(s) ==
    LET at == {p \in 1..Len(s) : IndexMatchAt(s, p)}
    IN  IF at = {} THEN [found |-> FALSE, digits |-> <<>>, msg |-> <<>>]
        ELSE LET p == CHOOSE x \in at : \A y \in at : x <= y
                 d == DigitRun(s, p + Len(IndexPrefix))
                 q == p + Len(IndexPrefix) + d
             IN  [found |-> TRUE,
                  digits |-> SubSeq(s, p + Len(IndexPrefix), q - 1),
                  msg |-> SubSeq(s, q + 2, Len(s))]

DigitValue(c) ==
    CASE c = "0" -> 0 [] c = "1" -> 1 [] c = "2" -> 2 [] c = "3" -> 3
      [] c = "4" -> 4 [] c = "5" -> 5 [] c = "6" -> 6 [] c = "7" -> 7
      [] c = "8" -> 8 [] OTHER -> 9

\* strconv.Atoi of a string of digits.
RECURSIVE Atoi(_)
Atoi(ds) ==
    IF ds = <<>> THEN 0
    ELSE 10 * Atoi(SubSeq(ds, 1, Len(ds) - 1)) + DigitValue(ds[Len(ds)])

\* reflect.TypeOf of an element of scan.
TypeOfPlaceholder(p) ==
    CASE p.kind = "nil" -> "<nil>"
      [] p.kind = "jsonScanner" -> "*dbmap.jsonScanner"
      [] OTHER -> "*field"

NoIndex == 0 - 1

\* ScanRow when row.Scan has returned err: the error it returns.  scan[index]
\* is evaluated with the index of the text; outside of scan it panics.
ScanError(err, scan) ==
    LET m == FindStringSubmatch(ErrorText(err)) IN
    IF ~m.found THEN [err |-> err, index |-> NoIndex, recv |-> "none"]
    ELSE LET index == Atoi(m.digits) IN
         IF index >= Len(scan)
         THEN [err |-> "panic", index |-> index, recv |-> "none"]
         ELSE [err |-> "scan error on index", index |-> index,
               recv |-> TypeOfPlaceholder(scan[index + 1])]

\* Mapper.Copy(target, scanned): jsonMapper sets the field to the scanned
\* map; Copy of the other mappers does nothing.
Copy(mapper, target, fieldPath, scanned, i) ==
    IF mapper = "jsonMapper"
    THEN [target EXCEPT ![fieldPath] = IF i \in DOMAIN scanned THEN scanned[i] ELSE 0]
    ELSE target

\* The second loop of ScanRow, from position i on.
RECURSIVE CopyLoop(_, _, _, _, _)
CopyLoop(m, order, target, scanned, i) ==
    IF i > Len(order) THEN target
    ELSE IF order[i] \notin DOMAIN m.dbToStruct
    THEN CopyLoop(m, order, target, scanned, i + 1)
    ELSE LET strucName == m.dbToStruct[order[i]]
         IN  CopyLoop(m, order,
                      Copy(m.mapping[strucName], target, FieldOf(m, strucName),
                           scanned, i),
                      scanned, i + 1)

\* The calls of Copy of the second loop.
CopyCalls(m, order) ==
    LET pos == MappedPositions(m, order, 1, Len(order) + 1)
    IN  [k \in 1..Len(pos) |-> MapperCall("Copy", pos[k], <<>>)]

\* A plausible slip: the fields are committed whatever row.Scan returned.
CopiesAlways(err) == TRUE

\* ScanRow goes on to its second loop.
CopiesAfterScan(err) == err = "nil"

\* mapping.ScanRow(target, row, scanOrder...), target pointing to a struct
\* of type targetType with value target: the returned error ("panic" when
\* the call panics), the struct as the call leaves it, and the calls made.
ScanRow(m, targetType, target, row, order) ==
    IF targetType # m.structType
    THEN [err |-> "not convertible", target |-> target, calls |-> <<>>,
          index |-> NoIndex, recv |-> "none"]
    ELSE IF NilMapper(m, order)
    THEN [err |-> "panic", target |-> target, calls |-> ReceiveCalls(m, order),
          index |-> NoIndex, recv |-> "none"]
    ELSE LET scan == Placeholders(m, order)
             s == RowScan(row, scan, target)
             calls == ReceiveCalls(m, order) \o <<ScanCall(scan)>>
             e == IF s.err = "nil"
                  THEN [err |-> "nil", index |-> NoIndex, recv |-> "none"]
                  ELSE ScanError(s.err, scan)
         IN  IF CopiesAfterScan(s.err)
             THEN [err |-> e.err,
                   target |-> CopyLoop(m, order, s.target, s.scanned, 1),
                   calls |-> calls \o CopyCalls(m, order),
                   index |-> e.index, recv |-> e.recv]
             ELSE [err |-> e.err, target |-> s.target, calls |-> calls,
                   index |-> e.index, recv |-> e.recv]

\* The Mappings ScanRow is called on: what StructMapping returns, with the
\* registry as initialised, for the record types of at most MaxNodes fields.
RowMappings ==
    {StructMapping(InitMappers, StructOf(fs)).mapping : fs \in FieldLists(MaxNodes)}
    \ {ZeroMapping}

\* The values of a row with the given columns: the value of bar is unlike
\* the value of the other columns.
RowValues(columns, v) ==
    [c \in columns |-> IF c = cBar THEN v ELSE v + MaxValue]

\* The rows: some of the columns with a value each; the row's Scan may
\* fail by itself.
TestRows ==
    {[vals |-> RowValues(s, v), fail |-> f] :
        s \in SUBSET {cBar, cExtra, cFoo}, v \in 1..MaxValue,
        f \in {"nil", "scan failed"}}

\* The rows whose Scan fails by itself, with each of the errors.
FailingTestRows ==
    {[vals |-> RowValues(s, 1), fail |-> f] :
        s \in SUBSET {cBar, cExtra, cFoo}, f \in ScanErrors}

\* The Mappings of the record types of at most MaxRegistryNodes fields.
SmallRowMappings ==
    {StructMapping(InitMappers, t).mapping : t \in SmallRecordTypes} \ {ZeroMapping}

(***************************************************************************)
(* The cursor consumers.                                                   *)
(***************************************************************************)
\* The record type of the Mapping the consumers are called on: a struct
\* with an embedded struct, as testType of the tests.
ScanType ==
    StructOf(<<Field(nEmbA, NoTag, TRUE,
                     StructOf(<<Field(nBar, NoTag, FALSE, IntType)>>)),
               Field(nFoo, NoTag, FALSE, IntType)>>)

ScanMapping == StructMapping(InitMappers, ScanType).mapping

\* The cursors: Columns() fails or returns the columns; every row has a
\* value for each column, the one of bar unlike the others, and scans or
\* fails; Err() is nil or an error.
CursorColumns == {<<cBar, cFoo>>, <<cBar, cExtra, cFoo>>}

CursorRows(columns) ==
    {[vals |-> RowValues({columns[i] : i \in 1..Len(columns)}, v), fail |-> f] :
        v \in 1..MaxValue, f \in {"nil", "scan failed"}}

Cursors ==
    UNION {
        {[cols |-> c, colsErr |-> ce, data |-> d, endErr |-> ee, current |-> 0] :
            ce \in {"nil", "columns failed"},
            d \in UNION {[1..n -> CursorRows(c)] : n \in 0..MaxRows},
            ee \in {"nil", "rows failed"}}
        : c \in CursorColumns}

\* TestRows.Next(): Current++; return Current < len(Rows)
CursorNext(c) == [c EXCEPT !.current = @ + 1]
HasRow(c) == c.current <= Len(c.data)

\* The values sent on out.
RecElem(val) == [kind |-> "rec", val |-> val, err |-> "nil"]
ErrElem(err) == [kind |-> "err", val |-> EmptyMap, err |-> err]
NoElem == [kind |-> "none", val |-> EmptyMap, err |-> "nil"]

\* A slice value: nil, or a slice of structs.
NilSlice == [isNil |-> TRUE, items |-> <<>>]
SliceOf(items) == [isNil |-> FALSE, items |-> items]

NoRet == [found |-> FALSE, slice |-> NilSlice, err |-> "not returned"]

\* A plausible slip: rows.Close() is called on the success path only.
OneAfterReturnLeak(err) == IF err = "nil" THEN "close" ELSE "returned"

\* ScanOne returns: the deferred rows.Close() runs next.
OneAfterReturn(err) == "close"

\* A plausible slip: the row is scanned without looking at Next's result.
OneAfterNextAlways(hasRow) == "scan"

\* ScanOne after rows.Next(): scan the row, or return (false, nil).
OneAfterNext(hasRow) == IF hasRow THEN "scan" ELSE "return"

\* A plausible slip: the goroutine goes on with the loop after an error.
AfterErrorSentLoop == "next"

\* The goroutine after out <- err: it returns, the deferred rows.Close()
\* runs next.
AfterErrorSent == "closeRows"

\* A plausible slip: the rows scanned so far are returned with the error.
AllErrorResultPartial(items, err) ==
    [found |-> FALSE, slice |-> SliceOf(items), err |-> err]

\* ScanAll on an element that is an error: return nil, err
AllErrorResult(items, err) == [found |-> FALSE, slice |-> NilSlice, err |-> err]

\* A plausible slip: the goroutine fetches the next row without sending
\* the record.
AfterRecordScannedSkip == "next"

\* The goroutine after a successful ScanRow: out <- record
AfterRecordScanned == "sendRec"

\* A plausible slip: out is made with room for the values sent.
SendProceedsBuffered(consumer) == TRUE

\* out is unbuffered: a send proceeds only together with a receive, that
\* is while the consumer is at its receive.
SendProceeds(consumer) == consumer = "recv"

\* A plausible slip: the result of rows.Err() is dropped.
EmitsEndErrorNever(err) == FALSE

\* if err := rows.Err(); err != nil { out <- err }
EmitsEndError(err) == err # "nil"

\* A plausible slip: the record is put in front of the slice.
AllPrepend(items, val) == <<val>> \o items

\* slice = reflect.Append(slice, reflect.ValueOf(elem))
AllAppend(items, val) == Append(items, val)

\* ScanRow reaches its call of row.Scan.
ScanRowCallsScan(m, targetType, order) ==
    targetType = m.structType /\ ~NilMapper(m, order)

(***************************************************************************)
(* The field names defaultDBName is applied to: every string of at most    *)
(* MaxNameLen characters over NameAlphabet, and the names of               *)
(* TestDefaultDBName.                                                      *)
(***************************************************************************)
NameAlphabet == {"A", "B", "a", UpperEAcute}

TestNames ==
    { <<"F","o","o">>,
      <<"F","o","o","B","a","r">>,
      <<"F","o","o","B","a","r","B","a","z">>,
      <<"J","S","O","N">>,
      <<"J","S","O","N","T","h","i","n","g">>,
      <<"F","o","o","J","S","O","N","T","h","i","n","g">>,
      <<"F","o","o","X","B","a","r">> }

FieldNames ==
    TestNames \cup UNION {[1..n -> NameAlphabet] : n \in 0..MaxNameLen}

(***************************************************************************)
(* The parts of the library are exercised one at a time: the variables of  *)
(* the others stay as they are here.                                       *)
(***************************************************************************)
BuildIdle ==
    /\ mappers = InitMappers
    /\ registered = InitRegistered
    /\ structIn = IntType
    /\ built = NotCalled

NameIdle ==
    /\ fieldName = <<>>
    /\ dbName = <<>>
    /\ nameRet = FALSE

RowIdle ==
    /\ rowMapping = ZeroMapping
    /\ rowIn = [vals |-> EmptyMap, fail |-> "nil"]
    /\ scanOrder = <<>>
    /\ rowTarget = EmptyMap
    /\ rowErr = "not called"
    /\ rowCalls = <<>>
    /\ rowErrInfo = [index |-> NoIndex, recv |-> "none"]

ScanIdle ==
    /\ op = "none"
    /\ cur = [cols |-> <<>>, colsErr |-> "nil", data |-> <<>>, endErr |-> "nil",
              current |-> 0]
    /\ events = <<>>
    /\ cpc = "idle"
    /\ ppc = "none"
    /\ scanCols = <<>>
    /\ elem = NoElem
    /\ chanClosed = FALSE
    /\ recvd = <<>>
    /\ slice = <<>>
    /\ oneTarget = EmptyMap
    /\ ret = NoRet

(***************************************************************************)
(* Field-name inference.                                                   *)
(***************************************************************************)
InitName ==
    /\ fieldName \in FieldNames
    /\ dbName = <<>>
    /\ nameRet = FALSE
    /\ BuildIdle
    /\ RowIdle
    /\ ScanIdle

\* One call of defaultDBName(fieldName).
DefaultDBName ==
    /\ ~nameRet
    /\ dbName' = defaultDBName(fieldName)
    /\ nameRet' = TRUE
    /\ UNCHANGED fieldName
    /\ UNCHANGED <<buildVars, rowVars, scanVars>>

NextName == DefaultDBName

SpecName == InitName /\ [][NextName]_vars

(***************************************************************************)
(* Schema building and the registry.                                       *)
(***************************************************************************)
InitBuild ==
    /\ BuildIdle
    /\ NameIdle
    /\ RowIdle
    /\ ScanIdle

\* RegisterMapper(mapper)
RegisterMapper(mapper) ==
    /\ built = NotCalled
    /\ mappers' = RegisterPrepend(mappers, mapper)
    /\ registered' = Append(registered, mapper)
    /\ UNCHANGED <<structIn, built>>
    /\ UNCHANGED <<nameVars, rowVars, scanVars>>

\* StructMapping(struc) for a value of type t.
CallStructMapping(t) ==
    /\ built = NotCalled
    /\ structIn' = t
    /\ built' = StructMapping(mappers, t)
    /\ UNCHANGED <<mappers, registered>>
    /\ UNCHANGED <<nameVars, rowVars, scanVars>>

\* Schema building: a program registers its mapper or not, then builds the
\* Mapping of a record type.
NextBuild ==
    \/ registered = InitRegistered /\ RegisterMapper("userMapper")
    \/ built = NotCalled /\ \E t \in RecordTypes : CallStructMapping(t)

SpecBuild == InitBuild /\ [][NextBuild]_vars

\* The registry: any sequence of registrations, then a Mapping is built.
NextRegistry ==
    \/ /\ Len(registered) < Len(InitRegistered) + MaxRegistrations
       /\ \E mapper \in RegistrableMappers : RegisterMapper(mapper)
    \/ built = NotCalled /\ \E t \in SmallRecordTypes : CallStructMapping(t)

SpecRegistry == InitBuild /\ [][NextRegistry]_vars

(***************************************************************************)
(* Row scanning.                                                           *)
(***************************************************************************)
\* Before the call: a Mapping, a row, and a zero struct of the Mapping's type.
InitRow ==
    /\ rowMapping \in RowMappings
    /\ rowIn \in TestRows
    /\ scanOrder = Cols(rowIn)
    /\ rowTarget = ZeroStruct(rowMapping.structType)
    /\ rowErr = "not called"
    /\ rowCalls = <<>>
    /\ rowErrInfo = [index |-> NoIndex, recv |-> "none"]
    /\ NameIdle
    /\ BuildIdle
    /\ ScanIdle

\* mapping.ScanRow(&target, row, row.Cols()...)
CallScanRow ==
    /\ rowErr = "not called"
    /\ LET r == ScanRow(rowMapping, rowMapping.structType, rowTarget, rowIn, scanOrder)
       IN  /\ rowErr' = r.err
           /\ rowTarget' = r.target
           /\ rowCalls' = r.calls
           /\ rowErrInfo' = [index |-> r.index, recv |-> r.recv]
    /\ UNCHANGED <<rowMapping, rowIn, scanOrder>>
    /\ UNCHANGED <<nameVars, buildVars, scanVars>>

NextRow == CallScanRow

SpecRow == InitRow /\ [][NextRow]_vars

\* The same call on a row whose Scan fails by itself.
InitRowError ==
    /\ rowMapping \in SmallRowMappings
    /\ rowIn \in FailingTestRows
    /\ scanOrder = Cols(rowIn)
    /\ rowTarget = ZeroStruct(rowMapping.structType)
    /\ rowErr = "not called"
    /\ rowCalls = <<>>
    /\ rowErrInfo = [index |-> NoIndex, recv |-> "none"]
    /\ NameIdle
    /\ BuildIdle
    /\ ScanIdle

SpecRowError == InitRowError /\ [][NextRow]_vars

(***************************************************************************)
(* The cursor consumers: one call of ScanOne, ScanStream or ScanAll on a   *)
(* cursor.                                                                 *)
(***************************************************************************)
InitScan ==
    /\ op \in {"ScanOne", "ScanStream", "ScanAll"}
    /\ cur \in Cursors
    /\ events = <<>>
    /\ cpc = "call"
    /\ ppc = "none"
    /\ scanCols = <<>>
    /\ elem = NoElem
    /\ chanClosed = FALSE
    /\ recvd = <<>>
    /\ slice = <<>>
    /\ oneTarget = ZeroStruct(ScanType)
    /\ ret = NoRet
    /\ NameIdle
    /\ BuildIdle
    /\ RowIdle

otherVars == <<nameVars, buildVars, rowVars>>

\* ---- ScanOne, on the caller's thread ----

\* The call: defer rows.Close(); cols, err := rows.Columns()
OneColumns ==
    /\ op = "ScanOne" /\ cpc = "call"
    /\ events' = Append(events, "Columns")
    /\ IF cur.colsErr # "nil"
       THEN /\ ret' = [found |-> FALSE, slice |-> NilSlice, err |-> cur.colsErr]
            /\ cpc' = OneAfterReturn(cur.colsErr)
            /\ UNCHANGED scanCols
       ELSE /\ scanCols' = cur.cols
            /\ cpc' = "next"
            /\ UNCHANGED ret
    /\ UNCHANGED <<op, cur, ppc, elem, chanClosed, recvd, slice, oneTarget>>
    /\ UNCHANGED otherVars

\* if !rows.Next() { return false, nil }
OneNext ==
    /\ op = "ScanOne" /\ cpc = "next"
    /\ events' = Append(events, "Next")
    /\ cur' = CursorNext(cur)
    /\ IF OneAfterNext(HasRow(cur')) = "scan"
       THEN /\ cpc' = "scan"
            /\ UNCHANGED ret
       ELSE /\ ret' = [found |-> FALSE, slice |-> NilSlice, err |-> "nil"]
            /\ cpc' = OneAfterReturn("nil")
    /\ UNCHANGED <<op, ppc, scanCols, elem, chanClosed, recvd, slice, oneTarget>>
    /\ UNCHANGED otherVars

\* mapping.ScanRow(target, rows, cols...) and the return that follows it.
\* (TestRows.Scan panics when there is no current row.)
OneScan ==
    /\ op = "ScanOne" /\ cpc = "scan"
    /\ IF ~HasRow(cur)
       THEN /\ events' = Append(events, "Scan")
            /\ ret' = [found |-> FALSE, slice |-> NilSlice, err |-> "panic"]
            /\ cpc' = OneAfterReturn("panic")
            /\ UNCHANGED oneTarget
       ELSE LET r == ScanRow(ScanMapping, ScanType, oneTarget,
                             cur.data[cur.current], scanCols)
            IN  /\ events' = IF ScanRowCallsScan(ScanMapping, ScanType, scanCols)
                             THEN Append(events, "Scan") ELSE events
                /\ oneTarget' = r.target
                /\ ret' = [found |-> r.err = "nil", slice |-> NilSlice, err |-> r.err]
                /\ cpc' = OneAfterReturn(r.err)
    /\ UNCHANGED <<op, cur, ppc, scanCols, elem, chanClosed, recvd, slice>>
    /\ UNCHANGED otherVars

\* The deferred rows.Close(), then the caller has the result.
OneClose ==
    /\ op = "ScanOne" /\ cpc = "close"
    /\ events' = Append(events, "Close")
    /\ cpc' = "returned"
    /\ UNCHANGED <<op, cur, ppc, scanCols, elem, chanClosed, recvd, slice, oneTarget, ret>>
    /\ UNCHANGED otherVars

\* ---- ScanStream: the call, and its goroutine ----

\* ScanStream(rows): make the channel, start the goroutine, return out.
\* ScanAll starts with the same call and then ranges over the channel.
StreamCall ==
    /\ op \in {"ScanStream", "ScanAll"} /\ cpc = "call"
    /\ ppc' = "columns"
    /\ cpc' = "recv"
    /\ UNCHANGED <<op, cur, events, scanCols, elem, chanClosed, recvd, slice, oneTarget, ret>>
    /\ UNCHANGED otherVars

\* cols, err := rows.Columns()
ProdColumns ==
    /\ ppc = "columns"
    /\ events' = Append(events, "Columns")
    /\ IF cur.colsErr # "nil"
       THEN /\ elem' = ErrElem(cur.colsErr)
            /\ ppc' = "sendErr"
            /\ UNCHANGED scanCols
       ELSE /\ scanCols' = cur.cols
            /\ ppc' = "next"
            /\ UNCHANGED elem
    /\ UNCHANGED <<op, cur, cpc, chanClosed, recvd, slice, oneTarget, ret>>
    /\ UNCHANGED otherVars

\* for rows.Next()
ProdNext ==
    /\ ppc = "next"
    /\ events' = Append(events, "Next")
    /\ cur' = CursorNext(cur)
    /\ ppc' = IF HasRow(cur') THEN "scan" ELSE "err"
    /\ UNCHANGED <<op, cpc, scanCols, elem, chanClosed, recvd, slice, oneTarget, ret>>
    /\ UNCHANGED otherVars

\* scan := reflect.New(mapping.structType); mapping.ScanRow(scan.Interface(), rows, cols...)
ProdScan ==
    /\ ppc = "scan"
    /\ IF ~HasRow(cur)
       THEN /\ events' = Append(events, "Scan")
            /\ elem' = ErrElem("panic")
            /\ ppc' = "sendErr"
       ELSE LET r == ScanRow(ScanMapping, ScanType, ZeroStruct(ScanType),
                             cur.data[cur.current], scanCols)
            IN  /\ events' = IF ScanRowCallsScan(ScanMapping, ScanType, scanCols)
                             THEN Append(events, "Scan") ELSE events
                /\ IF r.err # "nil"
                   THEN elem' = ErrElem(r.err) /\ ppc' = "sendErr"
                   ELSE elem' = RecElem(r.target) /\ ppc' = AfterRecordScanned
    /\ UNCHANGED <<op, cur, cpc, scanCols, chanClosed, recvd, slice, oneTarget, ret>>
    /\ UNCHANGED otherVars

\* if err := rows.Err(); err != nil { out <- err }
ProdErr ==
    /\ ppc = "err"
    /\ events' = Append(events, "Err")
    /\ IF EmitsEndError(cur.endErr)
       THEN elem' = ErrElem(cur.endErr) /\ ppc' = "sendErr"
       ELSE elem' = elem /\ ppc' = "closeRows"
    /\ UNCHANGED <<op, cur, cpc, scanCols, chanClosed, recvd, slice, oneTarget, ret>>
    /\ UNCHANGED otherVars

\* The goroutine after a send: the loop goes on after a record; after an
\* error the function returns.
AfterSend == IF ppc = "sendRec" THEN "next" ELSE AfterErrorSent

\* out is unbuffered: out <- elem and the consumer's receive happen together.
\* The consumer of ScanStream keeps the value.
StreamReceive ==
    /\ op = "ScanStream" /\ SendProceeds(cpc)
    /\ ppc \in {"sendRec", "sendErr"}
    /\ events' = Append(events, ppc)
    /\ recvd' = Append(recvd, elem)
    /\ ppc' = AfterSend
    /\ elem' = NoElem
    /\ UNCHANGED <<op, cur, cpc, scanCols, chanClosed, slice, oneTarget, ret>>
    /\ UNCHANGED otherVars

\* The consumer of ScanStream finds out closed: it has drained the channel.
StreamDrained ==
    /\ op = "ScanStream" /\ cpc = "recv"
    /\ chanClosed
    /\ cpc' = "done"
    /\ UNCHANGED <<op, cur, events, ppc, scanCols, elem, chanClosed, recvd, slice, oneTarget, ret>>
    /\ UNCHANGED otherVars

\* The consumer of ScanStream stops receiving.
StreamAbandon ==
    /\ op = "ScanStream" /\ cpc = "recv"
    /\ ~chanClosed
    /\ cpc' = "abandoned"
    /\ UNCHANGED <<op, cur, events, ppc, scanCols, elem, chanClosed, recvd, slice, oneTarget, ret>>
    /\ UNCHANGED otherVars

\* The deferred rows.Close()
ProdCloseRows ==
    /\ ppc = "closeRows"
    /\ events' = Append(events, "Close")
    /\ ppc' = "closeChan"
    /\ UNCHANGED <<op, cur, cpc, scanCols, elem, chanClosed, recvd, slice, oneTarget, ret>>
    /\ UNCHANGED otherVars

\* The deferred close(out); the goroutine ends.
ProdCloseChan ==
    /\ ppc = "closeChan"
    /\ events' = Append(events, "closeChan")
    /\ chanClosed' = TRUE
    /\ ppc' = "done"
    /\ UNCHANGED <<op, cur, cpc, scanCols, elem, recvd, slice, oneTarget, ret>>
    /\ UNCHANGED otherVars

\* ---- ScanAll: for elem := range stream ----

\* One iteration: an error is returned at once, a record is appended.
AllReceive ==
    /\ op = "ScanAll" /\ SendProceeds(cpc)
    /\ ppc \in {"sendRec", "sendErr"}
    /\ events' = Append(events, ppc)
    /\ ppc' = AfterSend
    /\ elem' = NoElem
    /\ IF elem.kind = "err"
       THEN /\ ret' = AllErrorResult(slice, elem.err)
            /\ cpc' = "returned"
            /\ UNCHANGED slice
       ELSE /\ slice' = AllAppend(slice, elem.val)
            /\ UNCHANGED <<ret, cpc>>
    /\ UNCHANGED <<op, cur, scanCols, chanClosed, recvd, oneTarget>>
    /\ UNCHANGED otherVars

\* The channel is closed: return slice.Interface(), nil
AllDrained ==
    /\ op = "ScanAll" /\ cpc = "recv"
    /\ chanClosed
    /\ ret' = [found |-> FALSE, slice |-> SliceOf(slice), err |-> "nil"]
    /\ cpc' = "returned"
    /\ UNCHANGED <<op, cur, events, ppc, scanCols, elem, chanClosed, recvd, slice, oneTarget>>
    /\ UNCHANGED otherVars

NextScan ==
    \/ OneColumns \/ OneNext \/ OneScan \/ OneClose
    \/ StreamCall \/ ProdColumns \/ ProdNext \/ ProdScan \/ ProdErr
    \/ ProdCloseRows \/ ProdCloseChan
    \/ StreamReceive \/ StreamDrained \/ StreamAbandon
    \/ AllReceive \/ AllDrained

SpecScan == InitScan /\ [][NextScan]_vars

(***************************************************************************)
(* C1 - C4: the cursor consumers.                                          *)
(***************************************************************************)
\* How often the call or channel operation e has happened.
Count(e) == Cardinality({i \in 1..Len(events) : events[i] = e})

\* The error ScanRow returns for row k of the cursor, "nil" for none.
RowErr(k) ==
    ScanRow(ScanMapping, ScanType, ZeroStruct(ScanType), cur.data[k], cur.cols).err

FailingRows == {k \in 1..Len(cur.data) : RowErr(k) # "nil"}

\* The error a full pass over the cursor meets first, "nil" for none.
FirstError ==
    IF cur.colsErr # "nil" THEN cur.colsErr
    ELSE IF FailingRows # {}
    THEN RowErr(CHOOSE k \in FailingRows : \A j \in FailingRows : k <= j)
    ELSE cur.endErr

\* The goroutine has nothing left to do but its deferred calls.
ProducerLeaving == ppc \in {"closeRows", "closeChan", "done"}

\* C1: rows.Close() is never called twice, and has been called once when
\* ScanOne has returned, when the consumer of ScanStream has drained the
\* channel, and when the goroutine that ScanAll started has ended; once
\* ScanAll has returned, that goroutine is past its last send.
C1_ClosedExactlyOnce ==
    /\ Count("Close") <= 1
    /\ (op = "ScanOne" /\ cpc = "returned") => Count("Close") = 1
    /\ (op = "ScanStream" /\ cpc = "done") => Count("Close") = 1
    /\ (op = "ScanAll" /\ cpc = "returned") => ProducerLeaving
    /\ ppc \in {"closeChan", "done"} => Count("Close") = 1

\* ScanAll has returned the scan error of the second row and its goroutine
\* has ended, the cursor closed once.
C1_Witness ==
    /\ op = "ScanAll" /\ cpc = "returned" /\ ppc = "done"
    /\ cur.colsErr = "nil" /\ FailingRows = {2}
    /\ ret.err = RowErr(2)
    /\ Count("Close") = 1

\* C2: ScanAll returns no partial result: when Columns, the scan of a row
\* or Err reports an error, ScanAll returns the first such error and a nil
\* result; with any error it returns a nil result.
C2_NoPartialResult ==
    (op = "ScanAll" /\ cpc = "returned") =>
        /\ FirstError # "nil" => (ret.err = FirstError /\ ret.slice = NilSlice)
        /\ ret.err # "nil" => ret.slice = NilSlice

\* ScanAll has returned the error of the second row after the first row
\* was scanned and appended.
C2_Witness ==
    /\ op = "ScanAll" /\ cpc = "returned"
    /\ cur.colsErr = "nil" /\ FailingRows = {2}
    /\ Len(slice) = 1
    /\ ret.err = RowErr(2) /\ ret.slice = NilSlice

\* C3: an error is the last element of the stream: after an error has been
\* handed over nothing follows but rows.Close() and close(out), the
\* goroutine is on its way out, and when it has ended out is closed.
C3_ErrorIsLast ==
    /\ \A i \in 1..Len(events) :
        events[i] = "sendErr" =>
            \A j \in (i + 1)..Len(events) : events[j] \in {"Close", "closeChan"}
    /\ \A i \in 1..(Len(recvd) - 1) : recvd[i].kind # "err"
    /\ Count("sendErr") > 0 => ProducerLeaving
    /\ ppc = "done" => chanClosed

\* The consumer has drained a stream whose only element is the scan error
\* of the first row; the second row was never fetched.
C3_Witness ==
    /\ op = "ScanStream" /\ cpc = "done"
    /\ Len(recvd) = 1 /\ recvd[1].kind = "err" /\ recvd[1].err = "scan failed"
    /\ Len(cur.data) = 2 /\ cur.current = 1
    /\ chanClosed

\* C4: ScanOne advances the cursor at most once; a Columns error is
\* returned as (false, err) without advancing; with no row it returns
\* (false, nil) without a scan; with a row it scans that row once and
\* returns (true, nil) with the row in the target, or (false, err).
C4_ScanOneResult ==
    (op = "ScanOne" /\ cpc = "returned") =>
        /\ Count("Next") <= 1
        /\ cur.colsErr # "nil" =>
            /\ ret.found = FALSE /\ ret.err = cur.colsErr
            /\ Count("Next") = 0 /\ Count("Scan") = 0
        /\ (cur.colsErr = "nil" /\ cur.data = <<>>) =>
            /\ ret.found = FALSE /\ ret.err = "nil"
            /\ Count("Scan") = 0
        /\ (cur.colsErr = "nil" /\ cur.data # <<>>) =>
            /\ Count("Scan") = 1 /\ cur.current = 1
            /\ RowErr(1) = "nil" =>
                /\ ret.found = TRUE /\ ret.err = "nil"
                /\ \A c \in DOMAIN ScanMapping.dbToStruct :
                    oneTarget[FieldOf(ScanMapping, ScanMapping.dbToStruct[c])]
                        = cur.data[1].vals[c]
            /\ RowErr(1) # "nil" => (ret.found = FALSE /\ ret.err = RowErr(1))

\* ScanOne has returned (true, nil) from a cursor of two rows, positioned
\* on the first.
C4_Witness ==
    /\ op = "ScanOne" /\ cpc = "returned"
    /\ Len(cur.data) = 2 /\ cur.current = 1
    /\ ret.found = TRUE /\ ret.err = "nil"
    /\ Count("Next") = 1 /\ Count("Scan") = 1 /\ Count("Close") = 1

(***************************************************************************)
(* C9: the reference rule for inferred column names.                       *)
(***************************************************************************)
\* A token of the reference rule starts at position i of s: at the first
\* letter of a run of [A-Z], and at the last letter of a run of more than
\* one when something other than [A-Z] follows it.
TokenStart(s, i) ==
    /\ s[i] \in ASCIIUpper
    /\ \/ i = 1
       \/ s[i - 1] \notin ASCIIUpper
       \/ i < Len(s) /\ s[i + 1] \notin ASCIIUpper

TokenStarts(s) == {i \in 1..Len(s) : TokenStart(s, i)}

\* The token that starts at i: up to the next start, or the end of s.
TokenAt(s, i) ==
    LET later == {j \in TokenStarts(s) : j > i}
        stop == IF later = {} THEN Len(s)
                ELSE (CHOOSE j \in later : \A k \in later : j <= k) - 1
    IN  SubSeq(s, i, stop)

\* The tokens of s in order.
RECURSIVE TokensFrom(_, _)
TokensFrom(s, i) ==
    IF i > Len(s) THEN <<>>
    ELSE IF TokenStart(s, i) THEN <<TokenAt(s, i)>> \o TokensFrom(s, i + 1)
    ELSE TokensFrom(s, i + 1)

\* Lower-casing of the letters of [A-Z] only.
LowerAZ(s) ==
    [i \in 1..Len(s) |-> IF s[i] \in ASCIIUpper THEN ToLowerChar(s[i]) ELSE s[i]]

\* The reference rule with every token lower-cased as a whole.
RefNameLowerAll(s) ==
    LET toks == TokensFrom(s, 1)
    IN  Join([k \in 1..Len(toks) |-> ToLower(toks[k])], <<"_">>)

\* The reference rule with the letters of [A-Z] lower-cased.
RefNameLowerAZ(s) ==
    LET toks == TokensFrom(s, 1)
    IN  Join([k \in 1..Len(toks) |-> LowerAZ(toks[k])], <<"_">>)

\* The table of TestDefaultDBName.
TestDBNames ==
    { << <<"F","o","o">>, <<"f","o","o">> >>,
      << <<"F","o","o","B","a","r">>, <<"f","o","o","_","b","a","r">> >>,
      << <<"F","o","o","B","a","r","B","a","z">>,
         <<"f","o","o","_","b","a","r","_","b","a","z">> >>,
      << <<"J","S","O","N">>, <<"j","s","o","n">> >>,
      << <<"J","S","O","N","T","h","i","n","g">>,
         <<"j","s","o","n","_","t","h","i","n","g">> >>,
      << <<"F","o","o","J","S","O","N","T","h","i","n","g">>,
         <<"f","o","o","_","j","s","o","n","_","t","h","i","n","g">> >>,
      << <<"F","o","o","X","B","a","r">>,
         <<"f","o","o","_","x","_","b","a","r">> >> }

\* C9 as stated: the returned name is the reference rule's, with every
\* token lower-cased, for every field name.
C9_EqualsReferenceLowerAll ==
    nameRet => dbName = RefNameLowerAll(fieldName)

\* C9 amended: the returned name is the reference rule's with the [A-Z]
\* letters of every token lower-cased and every other character kept as
\* written; the seven names of the test table map as listed.
C9_EqualsReferenceLowerAZ ==
    nameRet =>
        /\ dbName = RefNameLowerAZ(fieldName)
        /\ \A t \in TestDBNames : fieldName = t[1] => dbName = t[2]

\* An acronym followed by a lower-case tail has been converted.
C9_Witness ==
    /\ nameRet
    /\ fieldName = <<"J","S","O","N","T","h","i","n","g">>
    /\ dbName = <<"j","s","o","n","_","t","h","i","n","g">>

(***************************************************************************)
(* What a record type declares, read off the type alone.                   *)
(***************************************************************************)
\* The fields that are to be mapped, in declaration order, embedded structs
\* replaced by their fields: each with its name, its column name, its type
\* and the path of embedded fields that leads to the struct declaring it.
RECURSIVE Declared(_, _)
Declared(fields, path) ==
    IF fields = <<>> THEN <<>>
    ELSE LET f == Head(fields)
             here ==
                 IF f.tag = <<"-">> THEN <<>>
                 ELSE IF f.tag = <<>> /\ f.anonymous /\ f.type.kind = "struct"
                 THEN Declared(f.type.fields, path \o <<f.name>>)
                 ELSE <<[name |-> f.name,
                         col |-> IF f.tag = <<>> THEN RefNameLowerAZ(f.name) ELSE f.tag,
                         type |-> f.type,
                         path |-> path]>>
         IN  here \o Declared(Tail(fields), path)

DeclaredOf(type) == Declared(type.fields, <<>>)

\* Two of the declared fields have the same column name.
HasDuplicateColumn(type) ==
    LET d == DeclaredOf(type)
    IN  \E i, j \in 1..Len(d) : i # j /\ d[i].col = d[j].col

\* The registered mapper registered last among those that accept the type.
MostRecentAcceptor(history, type) ==
    LET acc == {i \in 1..Len(history) : Accepts(history[i], type)}
    IN  IF acc = {} THEN "none"
        ELSE history[CHOOSE i \in acc : \A j \in acc : j <= i]

\* Some declared field has a type no registered mapper accepts.
HasUnsupportedField(type, history) ==
    LET d == DeclaredOf(type)
    IN  \E i \in 1..Len(d) : MostRecentAcceptor(history, d[i].type) = "none"

Returned == built # NotCalled /\ structIn.kind = "struct"

\* C5: StructMapping fails with the duplicate-column error whenever two
\* non-excluded fields resolve to the same column name, at any nesting
\* depth and in any declaration order (all field types being supported).
C5_DuplicateColumnFails ==
    (Returned /\ HasDuplicateColumn(structIn)
        /\ ~HasUnsupportedField(structIn, registered))
    => built.err = "duplicate mapping"

\* C6: schema building is all-or-nothing: a non-excluded field of an
\* unsupported type (and no duplicate column) makes StructMapping return
\* the unsupported-field error and no Mapping; and in every Mapping that
\* StructMapping returns, each column has a mapper and a nesting resolver.
C6_AllOrNothing ==
    Returned =>
        /\ (HasUnsupportedField(structIn, registered) /\ ~HasDuplicateColumn(structIn))
            => (built.err = "unsupported field" /\ built.mapping = ZeroMapping)
        /\ built.err = "nil" =>
            \A c \in DOMAIN built.mapping.dbToStruct :
                /\ built.mapping.dbToStruct[c] \in DOMAIN built.mapping.mapping
                /\ built.mapping.dbToStruct[c] \in DOMAIN built.mapping.scanNesting

\* C7: for a record type whose non-excluded fields have pairwise distinct
\* column names and supported types, StructMapping succeeds and dbToStruct
\* has exactly one entry per non-excluded field, embedded fields at any
\* depth included, that maps the field's column to the field's name; fields
\* tagged "-" and the embedded structs themselves have none.
C7_OneColumnPerField ==
    (Returned /\ ~HasDuplicateColumn(structIn)
        /\ ~HasUnsupportedField(structIn, registered))
    => LET d == DeclaredOf(structIn)
           m == built.mapping.dbToStruct
       IN  /\ built.err = "nil"
           /\ DOMAIN m = {d[k].col : k \in 1..Len(d)}
           /\ Cardinality(DOMAIN m) = Len(d)
           /\ \A k \in 1..Len(d) : m[d[k].col] = d[k].name

\* A Mapping has been built of a type with a field inside an embedded
\* struct and an excluded field.
C7_Witness ==
    /\ Returned
    /\ ~HasDuplicateColumn(structIn)
    /\ ~HasUnsupportedField(structIn, registered)
    /\ \E k \in 1..Len(DeclaredOf(structIn)) : Len(DeclaredOf(structIn)[k].path) >= 1
    /\ \E i \in 1..Len(structIn.fields) : structIn.fields[i].tag = <<"-">>
    /\ built.err = "nil"

\* C8: every mapper that schema building has chosen for a field is the one
\* registered last among the registered mappers that accept the field's
\* type (a later registration overrides the earlier ones and the built-in
\* ones); a field whose type no registered mapper accepts has no mapper
\* chosen.
C8_LastRegisteredAcceptorWins ==
    Returned =>
        LET d == DeclaredOf(structIn)
            chosen == built.mapping.mapping
        IN  \A n \in DOMAIN chosen :
                \E k \in 1..Len(d) :
                    /\ d[k].name = n
                    /\ MostRecentAcceptor(registered, d[k].type) # "none"
                    /\ chosen[n] = MostRecentAcceptor(registered, d[k].type)

\* A built-in mapper registered again after the caller's mapper, both of
\* which accept int, has been chosen for an int field.
C8_Witness ==
    /\ Returned
    /\ registered = InitRegistered \o <<"userMapper", "nativeMapper">>
    /\ Len(DeclaredOf(structIn)) = 1
    /\ DeclaredOf(structIn)[1].type = IntType
    /\ built.err = "nil"
    /\ built.mapping.mapping[DeclaredOf(structIn)[1].name] = "nativeMapper"

\* C10: ScanRow ignores, without error, the names of scanOrder that are
\* absent from the Mapping: when the row's own Scan does not fail and every
\* mapped column has a mapper, ScanRow returns nil and each mapped column
\* of scanOrder has been scanned into its field.
C10_ExtraColumnsIgnored ==
    (/\ rowErr # "not called"
     /\ rowIn.fail = "nil"
     /\ ~NilMapper(rowMapping, scanOrder)
     /\ \E i \in 1..Len(scanOrder) : scanOrder[i] \notin DOMAIN rowMapping.dbToStruct)
    => /\ rowErr = "nil"
       /\ \A i \in 1..Len(scanOrder) :
            scanOrder[i] \in DOMAIN rowMapping.dbToStruct =>
                rowTarget[FieldOf(rowMapping, rowMapping.dbToStruct[scanOrder[i]])]
                    = rowIn.vals[scanOrder[i]]

(***************************************************************************)
(* C11 - C19.                                                              *)
(***************************************************************************)
\* The record type has no two fields of one column and no field without a
\* mapper among the built-in ones: the types StructMapping is meant to
\* accept.
WellFormed(type) ==
    ~HasDuplicateColumn(type) /\ ~HasUnsupportedField(type, InitRegistered)

\* What a field of the given type holds once the row's value v has been
\* scanned into it.
Carried(type, v) == IF type.kind = "map" THEN JSONDecode(v) ELSE v

\* C11: after a successful ScanRow every field declared for a column of
\* scanOrder holds the value the row carries for that column, fields of
\* embedded structs included, and the fields declared for other columns
\* are left alone.
C11_FieldsHoldRowValues ==
    (rowErr = "nil" /\ WellFormed(rowMapping.structType)) =>
        LET d == DeclaredOf(rowMapping.structType) IN
        \A k \in 1..Len(d) :
            LET held == rowTarget[d[k].path \o <<d[k].name>>] IN
            IF d[k].col \in DOMAIN rowIn.vals
            THEN held = Carried(d[k].type, rowIn.vals[d[k].col])
            ELSE held = 0

\* The record a row scans into: each field holds the value of its column.
ExpectedRecord(type, row) ==
    LET d == DeclaredOf(type) IN
    [p \in FieldPaths(type.fields, <<>>) |->
        LET k == CHOOSE k \in 1..Len(d) : d[k].path \o <<d[k].name>> = p
        IN  Carried(d[k].type, row.vals[d[k].col])]

ExpectedRecords ==
    [i \in 1..Len(cur.data) |-> ExpectedRecord(ScanType, cur.data[i])]

\* Columns, the scan of every row and Err all succeed.
AllRowsScan == cur.colsErr = "nil" /\ FailingRows = {} /\ cur.endErr = "nil"

\* C12: from a cursor whose N rows all scan and whose Err is nil, ScanAll
\* returns a nil error and the slice of the N records in cursor order, the
\* i-th scanned from the i-th row into a new struct; the consumer of
\* ScanStream receives the same N records in that order, and then finds
\* the channel closed.
C12_AllRecordsInOrder ==
    /\ (op = "ScanAll" /\ cpc = "returned" /\ AllRowsScan) =>
        /\ ret.err = "nil"
        /\ ret.slice = SliceOf(ExpectedRecords)
    /\ (op = "ScanStream" /\ cpc = "done" /\ AllRowsScan) =>
        /\ recvd = [i \in 1..Len(cur.data) |-> RecElem(ExpectedRecords[i])]
        /\ chanClosed

\* ScanAll has returned two records that differ, from a cursor of two rows.
C12_Witness ==
    /\ op = "ScanAll" /\ cpc = "returned" /\ AllRowsScan
    /\ Len(cur.data) = 2
    /\ ret.err = "nil" /\ Len(ret.slice.items) = 2
    /\ ret.slice.items[1] # ret.slice.items[2]
    /\ ret.slice.items[1][<<nEmbA, nBar>>] = cur.data[1].vals[cBar]
    /\ ret.slice.items[2][<<nFoo>>] = cur.data[2].vals[cFoo]

\* C13: when ScanAll returns, with a result or with an error, rows.Close()
\* has been called.
C13_ClosedWhenScanAllReturns ==
    (op = "ScanAll" /\ cpc = "returned") => Count("Close") = 1

\* The positions of the calls of Next, and of the handovers, in events.
NextAt == {i \in 1..Len(events) : events[i] = "Next"}
SendAt == {i \in 1..Len(events) : events[i] \in {"sendRec", "sendErr"}}

\* The goroutine is at a send.
Sending == ppc \in {"sendRec", "sendErr"}

\* C15: the goroutine and the consumer meet on every element: a value is
\* in flight only while the goroutine is at its send, every record scanned
\* is handed over before rows.Next() is called again, so that the rows
\* fetched are at most one more than the records handed over.
C15_Rendezvous ==
    op \in {"ScanStream", "ScanAll"} =>
        /\ elem # NoElem <=> Sending
        /\ \A i, j \in NextAt :
            i < j => \E k \in SendAt : i < k /\ k < j /\ events[k] = "sendRec"
        /\ Count("Next") <= Count("sendRec") + 1

\* The first record has been handed over and the second is in flight: the
\* goroutine is at its send and has not called Next a third time.
C15_Witness ==
    /\ op = "ScanStream" /\ cpc = "recv"
    /\ Len(cur.data) = 2
    /\ Len(recvd) = 1 /\ ppc = "sendRec" /\ elem.kind = "rec"
    /\ Count("Next") = 2 /\ cur.current = 2

\* The consumer has stopped receiving and the goroutine is at a send.
Blocked == op = "ScanStream" /\ cpc = "abandoned" /\ Sending

\* C16: once the consumer of ScanStream has stopped receiving, nothing is
\* handed over any more; the goroutine that comes to a send stays there
\* for ever, and while it is there neither out nor the cursor is closed.
C16_BlockedForever ==
    /\ [](Blocked => (~chanClosed /\ Count("Close") = 0))
    /\ [][~Blocked]_vars
    /\ [][cpc = "abandoned" => (cpc' = cpc /\ recvd' = recvd)]_vars

\* The consumer took one record and stopped; the goroutine scanned the
\* second row and is at its send.
C16_Witness ==
    /\ Blocked
    /\ Len(recvd) = 1 /\ recvd[1].kind = "rec"
    /\ elem.kind = "rec" /\ cur.current = 2
    /\ ~chanClosed /\ Count("Close") = 0

\* C17: rows.Err() is called at most once, and only when Next has returned
\* false after every row scanned and was handed over; the drained stream
\* is then the records followed by that error when it is not nil, and the
\* records alone when it is nil.  After an error of Columns or of a row's
\* scan, Err is not called.
C17_EndErrorOnce ==
    /\ Count("Err") <= 1
    /\ Count("Err") = 1 =>
        /\ cur.colsErr = "nil" /\ FailingRows = {}
        /\ cur.current = Len(cur.data) + 1
        /\ Count("Next") = Len(cur.data) + 1
        /\ Count("sendRec") = Len(cur.data)
    /\ (op = "ScanStream" /\ cpc = "done") =>
        IF cur.colsErr = "nil" /\ FailingRows = {}
        THEN /\ Count("Err") = 1
             /\ recvd = [i \in 1..Len(cur.data) |-> RecElem(ExpectedRecords[i])]
                        \o (IF cur.endErr # "nil" THEN <<ErrElem(cur.endErr)>>
                            ELSE <<>>)
        ELSE Count("Err") = 0

\* The consumer has drained a stream of two records and the error of
\* rows.Err() after them.
C17_Witness ==
    /\ op = "ScanStream" /\ cpc = "done"
    /\ Len(cur.data) = 2 /\ cur.endErr = "rows failed"
    /\ Len(recvd) = 3
    /\ recvd[1].kind = "rec" /\ recvd[2].kind = "rec"
    /\ recvd[3] = ErrElem("rows failed")
    /\ Count("Err") = 1

\* The positions of scanOrder whose column the Mapping knows, and the
\* positions in rowCalls of the calls of each kind.
MappedAt ==
    {i \in 1..Len(scanOrder) : scanOrder[i] \in DOMAIN rowMapping.dbToStruct}

CallsOf(name) == {k \in 1..Len(rowCalls) : rowCalls[k].call = name}

\* C14: ScanRow works in two phases.  It calls row.Scan at most once, and
\* once when no Receive panics; before that call it has called Receive
\* once for every mapped column and nothing else; the call is given as
\* many placeholders as scanOrder has names, at position i what Receive
\* returned for the column scanOrder[i], and nil for a column the Mapping
\* does not know.  Copy is called, once for every mapped column and after
\* row.Scan, exactly when ScanRow returns nil; when row.Scan fails Copy is
\* not called.
C14_TwoPhaseProtocol ==
    rowErr # "not called" =>
        /\ Cardinality(CallsOf("Scan")) <= 1
        /\ ~NilMapper(rowMapping, scanOrder) => Cardinality(CallsOf("Scan")) = 1
        /\ \A k \in CallsOf("Scan") :
            /\ \A j \in 1..(k - 1) : rowCalls[j].call = "Receive"
            /\ \A i \in MappedAt :
                Cardinality({j \in 1..(k - 1) : rowCalls[j].pos = i}) = 1
            /\ Len(rowCalls[k].data) = Len(scanOrder)
            /\ \A i \in 1..Len(scanOrder) :
                IF i \in MappedAt
                THEN \E j \in 1..(k - 1) :
                        /\ rowCalls[j].pos = i
                        /\ rowCalls[j].data = <<rowCalls[k].data[i]>>
                ELSE rowCalls[k].data[i] = NilPlaceholder
        /\ \A c \in CallsOf("Copy") : \E k \in CallsOf("Scan") : k < c
        /\ IF rowErr = "nil"
           THEN \A i \in MappedAt :
                    Cardinality({c \in CallsOf("Copy") : rowCalls[c].pos = i}) = 1
           ELSE CallsOf("Copy") = {}
        /\ \A c \in CallsOf("Copy") : rowCalls[c].pos \in MappedAt

\* ScanRow has scanned a row of two mapped columns, one of them into a map
\* field: two calls of Receive, row.Scan, two calls of Copy.
C14_Witness ==
    /\ rowErr = "nil"
    /\ Len(scanOrder) = 2 /\ MappedAt = {1, 2}
    /\ Len(rowCalls) = 5
    /\ rowCalls[1].call = "Receive" /\ rowCalls[2].call = "Receive"
    /\ rowCalls[3].call = "Scan"
    /\ rowCalls[3].data[2].kind = "jsonScanner"
    /\ rowCalls[4].call = "Copy" /\ rowCalls[5].call = "Copy"
    /\ <<nFoo>> \in DOMAIN rowTarget
    /\ rowTarget[<<nFoo>>] = JSONDecode(rowIn.vals[cFoo])

\* C18: in a Mapping that StructMapping returns, every column resolves,
\* by its nesting resolver and field name as ScanRow applies them, to the
\* field the column was declared on; so two columns never resolve to one
\* field, also when fields at different embedding levels have one name.
C18_ColumnsResolveToOwnField ==
    (/\ Returned /\ built.err = "nil"
     /\ ~HasDuplicateColumn(structIn)
     /\ ~HasUnsupportedField(structIn, registered))
    => LET d == DeclaredOf(structIn)
           m == built.mapping
       IN  \A k \in 1..Len(d) :
            /\ d[k].col \in DOMAIN m.dbToStruct
            /\ FieldOf(m, m.dbToStruct[d[k].col]) = d[k].path \o <<d[k].name>>

\* The index that the text of an error of row.Scan names, NoIndex when the
\* text is not of the form 'index <n>: <msg>'.
NamedIndex(err) ==
    CASE err = "index 0: bad" -> 0
      [] err = "index 1: bad" -> 1
      [] err = "index 2: bad" -> 2
      [] err = "index 3: bad" -> 3
      [] err = "index 12: bad" -> 12
      [] OTHER -> NoIndex

\* C19: when row.Scan returns an error, ScanRow returns an error: the same
\* error when its text does not name an index, and otherwise a scan error
\* that names the index of the text, whatever it is, and the type of the
\* placeholder at that index when there is one.
C19_ScanErrorsReturned ==
    (/\ rowErr # "not called"
     /\ rowIn.fail # "nil"
     /\ ~NilMapper(rowMapping, scanOrder))
    => IF NamedIndex(rowIn.fail) = NoIndex
       THEN rowErr = rowIn.fail
       ELSE /\ rowErr = "scan error on index"
            /\ rowErrInfo.index = NamedIndex(rowIn.fail)
            /\ NamedIndex(rowIn.fail) < Len(scanOrder) =>
                rowErrInfo.recv =
                    TypeOfPlaceholder(Placeholders(rowMapping, scanOrder)
                                          [NamedIndex(rowIn.fail) + 1])

====
